---- MODULE Spec2Model ----
(***************************************************************************)
(* Model of cardano-launcher's Launcher (src/src/cardanoLauncher.ts): the   *)
(* supervisor of a cardano-node service and a cardano-wallet service.       *)
(*                                                                         *)
(* The Launcher's own code is modelled statement by statement.  The        *)
(* managed Service (./service) is a collaborator whose code is not part of *)
(* the sources at hand; it is modelled from its documented contract: an    *)
(* ordered status, start() and stop(timeout) futures, and a synchronous    *)
(* statusChanged notification.                                             *)
(*                                                                         *)
(* One step of the model is one JavaScript job: a public call, a timer     *)
(* tick, a socket callback, a promise continuation, or an event of a child *)
(* process.  Event listeners run synchronously inside the step that emits. *)
(***************************************************************************)
EXTENDS Integers, Sequences, FiniteSets, TLC

\* ------------------------------------------------------------------ bounds
\* How many times the user calls Launcher.start().
MaxStarts == 1
\* How many times the user calls Launcher.stop() explicitly.
MaxStops == 1
\* How many more times the user calls Launcher.start() in the specification
\* with repeated starts.
MaxRestarts == 1
\* The most start() calls there can be.
MaxStartCalls == MaxStarts + MaxRestarts

\* --------------------------------------------------------------- constants
\* ServiceStatus, an ordered enum compared with ">".
NotStarted == 0
Starting == 1
Started == 2
Stopping == 3
Stopped == 4

\* Default of stop(timeoutSeconds = 60).
DefaultTimeoutSeconds == 60
\* The timeout the signal handler passes to Service.stop.
SignalTimeoutSeconds == 0
\* The port the wallet start command reports (startService.status.info.port).
WalletPort == 8090
\* apiPort before the port is known.
NoPort == 0

node == "node"
wallet == "wallet"
Services == {node, wallet}

\* Timeouts the user passes to stop(); the observers pass the default and the
\* signal handler passes 0.
StopTimeouts == {5}
\* ServiceExitStatus of a process that ran and ended.
ProcessExits == {"code", "signal"}
\* ServiceExitStatus of a service stopped before its process was launched.
NeverRan == "unknown"

VARIABLES
  cmd,          \* makeServiceCommands: state of each start-command promise
  status,       \* Service.getStatus() of each service
  exitStatus,   \* ServiceExitStatus of each service, "none" while running
  svcStart,     \* the future returned by each Service.start()
  apiPort,      \* Launcher.apiPort
  exited,       \* Launcher.exited
  sigInstalled, \* whether the signal handlers are registered on the process
  cleanupSignalHandlers, \* Launcher.cleanupSignalHandlers: "remove" or "noop"
  starts,       \* one record per Launcher.start() call: its future
  pollers,      \* one record per waitForApi call: timer, addr, client
  stops,        \* one record per Launcher.stop() call
  userStops,    \* number of explicit stop() calls so far
  exitCount,    \* number of 'exit' emissions on walletBackend.events
  readyCount,   \* number of 'ready' emissions on walletBackend.events
  sigStop       \* per service, the timeouts of the signal handler's stop
                \* calls whose futures are still pending

vars == <<cmd, status, exitStatus, svcStart, apiPort, exited, sigInstalled,
          cleanupSignalHandlers, starts, pollers, stops, userStops, exitCount,
          readyCount, sigStop>>

\* The part of the state that Launcher.stop() and the services touch.
Cur == [status |-> status, exitStatus |-> exitStatus, stops |-> stops,
        starts |-> starts, sig |-> sigStop]

\* The signal handler holds no pending stop future of a service.
NoSignalStop == {}

\* ----------------------------------------------------------- Launcher.stop
RECURSIVE LauncherStop(_, _)

\* Mutant: the observers do not react to Stopped.
StatusChangedIgnored(st, s, newStatus) == st

\* The statusChanged observers the constructor registers on both services.
StatusChanged(st, s, newStatus) ==
  IF newStatus = Stopped THEN LauncherStop(st, DefaultTimeoutSeconds) ELSE st

\* A service stop future that is pending resolves when the service stops.
ResolveStopFuture(rec, s, es) ==
  IF s = wallet
    THEN [rec EXCEPT !.wf = IF @ = "pending" THEN es ELSE @]
    ELSE [rec EXCEPT !.nf = IF @ = "pending" THEN es ELSE @]

\* Bookkeeping for the properties: which start() futures were pending when a
\* service reported Stopped, and when the node did so before the wallet ran.
MarkStopped(call, st, s) ==
  [call EXCEPT
     !.atStop = @ \/ (call.fut = "pending"),
     !.early = @ \/ (s = node /\ (st.status[wallet] < Started
                                     \/ st.exitStatus[wallet] = NeverRan))]

\* A stop future the signal handler holds resolves the same way; nothing is
\* chained on its value, so a settled future leaves nothing behind.
ResolveSignalStop(call) == NoSignalStop

\* Service: the status changes and the observers are notified synchronously.
SetStatus(st, s, newStatus, es) ==
  LET st1 == IF newStatus = Stopped
               THEN [st EXCEPT
                       !.status[s] = Stopped,
                       !.exitStatus[s] = es,
                       !.sig[s] = ResolveSignalStop(@),
                       !.stops = [i \in DOMAIN @ |-> ResolveStopFuture(@[i], s, es)],
                       !.starts = [k \in DOMAIN @ |-> MarkStopped(@[k], st, s)]]
               ELSE [st EXCEPT !.status[s] = newStatus]
  IN StatusChanged(st1, s, newStatus)

\* Service.stop(timeoutSeconds): a running service starts stopping, a service
\* whose process was never launched is stopped at once.
ServiceStop(st, s, t) ==
  CASE st.status[s] \in {NotStarted, Starting} -> SetStatus(st, s, Stopped, NeverRan)
    [] st.status[s] = Started -> SetStatus(st, s, Stopping, "none")
    [] OTHER -> st

\* The future Service.stop() returns: resolved at once when already stopped.
StopFuture(st, s) ==
  IF st.status[s] = Stopped THEN st.exitStatus[s] ELSE "pending"

\* The timeouts Launcher.stop(t) passes to the two services.
StopArgs(t) == [wallet |-> t, node |-> t]

\* Launcher.stop(t): Promise.all([walletService.stop(t), nodeService.stop(t)]).
LauncherStop(st, t) ==
  LET a == ServiceStop(st, wallet, StopArgs(t)[wallet])
      b == ServiceStop(a, node, StopArgs(t)[node])
      rec == [t |-> t, wt |-> StopArgs(t)[wallet], nt |-> StopArgs(t)[node],
              wf |-> StopFuture(b, wallet), nf |-> StopFuture(b, node),
              done |-> FALSE, res |-> <<"pending", "pending">>, fired |-> FALSE,
              removed |-> FALSE]
  IN [b EXCEPT !.stops = Append(@, rec)]

\* Apply a new service/stop state to the variables.
Commit(st) ==
  /\ status' = st.status
  /\ exitStatus' = st.exitStatus
  /\ stops' = st.stops
  /\ starts' = st.starts
  /\ sigStop' = st.sig

\* const noop = (): void => { /* empty */ }
noop == "noop"

\* ------------------------------------------------------------------- Init
Init ==
  /\ cmd = [s \in Services |-> "pending"]
  /\ status = [s \in Services |-> NotStarted]
  /\ exitStatus = [s \in Services |-> "none"]
  /\ svcStart = [s \in Services |-> "none"]
  /\ apiPort = NoPort
  /\ exited = FALSE
  /\ sigInstalled \in BOOLEAN
  /\ cleanupSignalHandlers = IF sigInstalled THEN "remove" ELSE noop
  /\ starts = <<>>
  /\ pollers = <<>>
  /\ stops = <<>>
  /\ userStops = 0
  /\ exitCount = 0
  /\ readyCount = 0
  /\ sigStop = [s \in Services |-> NoSignalStop]

\* ------------------------------------------------- makeServiceCommands
\* node = mkdirp(stateDir).then(nodeExe): settles on its own.
NodeCmdCanSettle == cmd[node] = "pending"

\* Mutant: walletExe is not chained on the node command.
WalletCmdUnchained == cmd[wallet] = "pending"

\* wallet = node.then(walletExe): walletExe runs once node is fulfilled.
WalletCmdCanSettle == cmd[wallet] = "pending" /\ cmd[node] = "fulfilled"

NodeCmdFulfil ==
  /\ NodeCmdCanSettle
  /\ cmd' = [cmd EXCEPT ![node] = "fulfilled"]
  /\ UNCHANGED <<status, exitStatus, svcStart, apiPort, exited, sigInstalled,
                 cleanupSignalHandlers, starts, pollers, stops, userStops,
                 exitCount, readyCount, sigStop>>

\* A rejection of node passes through node.then(...) to wallet.
NodeCmdReject ==
  /\ NodeCmdCanSettle
  /\ cmd' = [s \in Services |-> "rejected"]
  /\ UNCHANGED <<status, exitStatus, svcStart, apiPort, exited, sigInstalled,
                 cleanupSignalHandlers, starts, pollers, stops, userStops,
                 exitCount, readyCount, sigStop>>

\* start.wallet.then(startService => this.apiPort = startService...port)
WalletCmdFulfil ==
  /\ WalletCmdCanSettle
  /\ cmd' = [cmd EXCEPT ![wallet] = "fulfilled"]
  /\ apiPort' = WalletPort
  /\ UNCHANGED <<status, exitStatus, svcStart, exited, sigInstalled,
                 cleanupSignalHandlers, starts, pollers, stops, userStops,
                 exitCount, readyCount, sigStop>>

\* start.wallet rejects: .catch(passthroughErrorLogger), apiPort stays 0.
WalletCmdReject ==
  /\ WalletCmdCanSettle
  /\ cmd' = [cmd EXCEPT ![wallet] = "rejected"]
  /\ UNCHANGED <<status, exitStatus, svcStart, apiPort, exited, sigInstalled,
                 cleanupSignalHandlers, starts, pollers, stops, userStops,
                 exitCount, readyCount, sigStop>>

\* ---------------------------------------------------------- Launcher.start
\* Service.start(): only a service that was never started begins starting.
ServiceStartStatus(stat, s) ==
  IF stat[s] = NotStarted THEN [stat EXCEPT ![s] = Starting] ELSE stat

\* The future of the service's start operation after start() is invoked.
ServiceStartFuture(stat, fut, s) ==
  IF stat[s] = NotStarted THEN [fut EXCEPT ![s] = "pending"] ELSE fut

\* Mutant: the executor does not subscribe to 'exit'.
StartStepsWithoutExit == <<"nodeStart", "walletStart", "waitForApi", "onReady">>

\* The statements of the executor in Launcher.start(), in program order.
StartSteps == <<"nodeStart", "walletStart", "waitForApi", "onReady", "onExit">>

\* Position of a statement in the executor, 0 when it is not there.
StepIndex(step) ==
  IF \E i \in DOMAIN StartSteps : StartSteps[i] = step
    THEN CHOOSE i \in DOMAIN StartSteps : StartSteps[i] = step
    ELSE 0

\* The listeners a start() call has registered when its executor returns.
Subscriptions == {e \in {"onReady", "onExit"} : StepIndex(e) > 0}

\* The statements of the executor that run before the first subscription.
BeforeSubscribing ==
  {StartSteps[i] : i \in {j \in DOMAIN StartSteps :
      \A e \in {"onReady", "onExit"} : StepIndex(e) = 0 \/ j < StepIndex(e)}}

\* waitForApi(stop, ready): setInterval(..., 250), no addr, no client yet.
\* open counts the sockets the poller created and that are not destroyed,
\* readies the times its ready callback ran.
NewPoller == [timer |-> TRUE, addr |-> NoPort, sock |-> "none", accepted |-> FALSE,
              beforeStop |-> FALSE, open |-> 0, readies |-> 0]

\* The executor of the promise start() returns.
StartCall ==
  /\ LET stat1 == ServiceStartStatus(status, node)
         fut1 == ServiceStartFuture(status, svcStart, node)
         stat2 == ServiceStartStatus(stat1, wallet)
         fut2 == ServiceStartFuture(stat1, fut1, wallet)
     IN /\ status' = stat2
        /\ svcStart' = fut2
        /\ starts' = Append(starts,
             [fut |-> "pending", err |-> <<"none", "none">>,
              subs |-> Subscriptions, before |-> BeforeSubscribing,
              nodeAtWalletStart |-> fut1[node],
              missed |-> FALSE, atStop |-> FALSE, early |-> FALSE])
  /\ pollers' = Append(pollers, NewPoller)
  /\ UNCHANGED <<cmd, exitStatus, apiPort, exited, sigInstalled,
                 cleanupSignalHandlers, stops, userStops, exitCount,
                 readyCount, sigStop>>

\* The user calls launcher.start().
Start == Len(starts) < MaxStarts /\ StartCall

\* The user calls launcher.start() once more.
StartAgain ==
  /\ Len(starts) >= MaxStarts
  /\ Len(starts) < MaxStartCalls
  /\ StartCall

\* ------------------------------------------------------ walletBackend.events
\* emit('ready', api): every registered ready listener runs; resolve settles
\* a future that is still pending.  A call without the listener misses it.
EmitReady(calls) ==
  [k \in DOMAIN calls |->
     IF "onReady" \in calls[k].subs
       THEN [calls[k] EXCEPT !.fut = IF @ = "pending" THEN "resolved" ELSE @]
       ELSE [calls[k] EXCEPT !.missed = TRUE]]

\* emit('exit', status): reject(new BackendExitedError(status)).
EmitExit(calls, st) ==
  [k \in DOMAIN calls |->
     IF "onExit" \in calls[k].subs
       THEN [calls[k] EXCEPT
               !.err = IF calls[k].fut = "pending" THEN st ELSE @,
               !.fut = IF @ = "pending" THEN "rejected" ELSE @]
       ELSE [calls[k] EXCEPT !.missed = TRUE]]

\* -------------------------------------------------------------- waitForApi
\* stopWaiting(): either service has progressed past Started.
stopWaiting == status[node] > Started \/ status[wallet] > Started

\* Mutant: the previous client is left as it is.
KeepClient(p) == p

\* if (client) { client.destroy(); }: a client that is still open is closed;
\* one whose attempt failed was destroyed when the error was raised.
DestroyClient(p) ==
  IF p.sock \in {"pending", "accepted", "connected"}
    THEN [p EXCEPT !.open = @ - 1]
    ELSE p

\* The address is fixed on the first attempt; then the previous client is
\* destroyed and a new socket starts connecting.
NewAttempt(p) ==
  LET q == DestroyClient(p)
  IN [q EXCEPT !.addr = IF @ = NoPort THEN apiPort ELSE @,
               !.sock = "pending",
               !.open = @ + 1]

\* Mutant: the tick does not look at apiPort.
AttemptWithoutPort == TRUE

\* else if (this.apiPort): attempts are made once the port is known.
ShouldAttempt == apiPort # NoPort

\* One timer tick of poller k.
Tick(k) ==
  /\ k \in DOMAIN pollers
  /\ pollers[k].timer
  /\ pollers' = [pollers EXCEPT ![k] =
       IF stopWaiting
         THEN [@ EXCEPT !.timer = FALSE]
         ELSE IF ShouldAttempt THEN NewAttempt(@) ELSE @]
  /\ UNCHANGED <<cmd, status, exitStatus, svcStart, apiPort, exited,
                 sigInstalled, cleanupSignalHandlers, starts, stops, userStops,
                 exitCount, readyCount, sigStop>>

\* The wallet's API server accepts the probe: possible while its process runs.
\* The poller record notes that a probe was accepted, and whether one was
\* accepted while the stop-predicate was still false.
ConnectAccepted(k) ==
  /\ k \in DOMAIN pollers
  /\ pollers[k].sock = "pending"
  /\ status[wallet] \in {Started, Stopping}
  /\ pollers' = [pollers EXCEPT ![k] = [@ EXCEPT !.sock = "accepted", !.accepted = TRUE,
                                     !.beforeStop = @ \/ ~stopWaiting]]
  /\ UNCHANGED <<cmd, status, exitStatus, svcStart, apiPort, exited,
                 sigInstalled, cleanupSignalHandlers, starts, stops, userStops,
                 exitCount, readyCount, sigStop>>

\* Mutant: an error ends the polling.
ErrorIsFatal(p) == [p EXCEPT !.sock = "failed", !.open = @ - 1, !.timer = FALSE]

\* The attempt failed: the socket is destroyed and 'error' is emitted; the
\* listener logs it at debug level and does nothing else.
AfterError(p) == [p EXCEPT !.sock = "failed", !.open = @ - 1]

\* client.on('error'): the attempt failed.
ConnectError(k) ==
  /\ k \in DOMAIN pollers
  /\ pollers[k].sock = "pending"
  /\ pollers' = [pollers EXCEPT ![k] = AfterError(@)]
  /\ UNCHANGED <<cmd, status, exitStatus, svcStart, apiPort, exited,
                 sigInstalled, cleanupSignalHandlers, starts, stops, userStops,
                 exitCount, readyCount, sigStop>>

\* Mutant: the callback also runs for a failed attempt.
CallbackOnAnyOutcome(p) == p.sock \in {"accepted", "failed"}

\* client.connect(addr, callback): the callback runs for an accepted attempt.
CallbackDue(p) == p.sock = "accepted"

\* Mutant: the callback does not cancel the timer.
ConnectedTimerKept(p) == [p EXCEPT !.sock = "connected", !.readies = @ + 1]

\* The poller after the connect callback: clearInterval(timer); ready().
Connected(p) ==
  [p EXCEPT !.timer = FALSE, !.sock = "connected", !.readies = @ + 1]

\* The connect callback: clearInterval(timer); ready().
ConnectCallback(k) ==
  /\ k \in DOMAIN pollers
  /\ CallbackDue(pollers[k])
  /\ pollers' = [pollers EXCEPT ![k] = Connected(@)]
  /\ readyCount' = readyCount + 1
  /\ starts' = EmitReady(starts)
  /\ UNCHANGED <<cmd, status, exitStatus, svcStart, apiPort, exited,
                 sigInstalled, cleanupSignalHandlers, stops, userStops,
                 exitCount, sigStop>>

\* ------------------------------------------------------------- stop, signals
\* The user calls launcher.stop(t).
Stop(t) ==
  /\ userStops < MaxStops
  /\ userStops' = userStops + 1
  /\ Commit(LauncherStop(Cur, t))
  /\ UNCHANGED <<cmd, svcStart, apiPort, exited, sigInstalled,
                 cleanupSignalHandlers, pollers, exitCount, readyCount>>

\* Mutant: the continuation runs when either service has stopped.
EitherStopped(rec) == rec.wf # "pending" \/ rec.nf # "pending"

\* Whether the continuation of Promise.all in stop() call i can run.
BothStopped(rec) == rec.wf # "pending" /\ rec.nf # "pending"

\* Mutant: the continuation does not look at the exited flag.
AlwaysEmitExit == TRUE

\* Whether the continuation emits 'exit'.
ShouldEmitExit == ~exited

\* The status the continuation builds: { wallet, node }.
CombinedStatus(rec) == <<rec.wf, rec.nf>>

\* Mutant: only the call that emitted returns the status.
StatusOnlyWhenEmitted(rec, emitted) ==
  IF emitted THEN <<rec.wf, rec.nf>> ELSE <<"pending", "pending">>

\* What the continuation returns: the status, whether or not it emitted.
ReturnedStatus(rec, emitted) == CombinedStatus(rec)

\* Mutant: the remover does not replace itself by noop.
RemoveHandlersOnly == [handlers |-> FALSE, cleanup |-> "remove", removed |-> TRUE]

\* The remover installSignalHandlers stores: process.off for every signal,
\* then this.cleanupSignalHandlers = noop.
RemoveHandlers == [handlers |-> FALSE, cleanup |-> noop, removed |-> TRUE]

\* this.cleanupSignalHandlers(): the remover, or noop which does nothing.
Cleanup ==
  IF cleanupSignalHandlers = "remove"
    THEN RemoveHandlers
    ELSE [handlers |-> sigInstalled, cleanup |-> cleanupSignalHandlers,
          removed |-> FALSE]

\* The continuation of stop() call i: emit once, clean up, return status.
StopDone(i) ==
  /\ i \in DOMAIN stops
  /\ ~stops[i].done
  /\ BothStopped(stops[i])
  /\ LET st == CombinedStatus(stops[i])
     IN /\ stops' = [stops EXCEPT ![i] =
               [@ EXCEPT !.done = TRUE, !.fired = ShouldEmitExit,
                           !.removed = Cleanup.removed,
                           !.res = ReturnedStatus(stops[i], ShouldEmitExit)]]
        /\ IF ShouldEmitExit
             THEN /\ exitCount' = exitCount + 1
                  /\ starts' = EmitExit(starts, st)
             ELSE UNCHANGED <<exitCount, starts>>
  /\ exited' = TRUE
  /\ sigInstalled' = Cleanup.handlers
  /\ cleanupSignalHandlers' = Cleanup.cleanup
  /\ UNCHANGED <<cmd, status, exitStatus, svcStart, apiPort, pollers,
                 userStops, readyCount, sigStop>>

\* The signals the handler is registered for.
Signals == {"SIGINT", "SIGTERM", "SIGHUP", "SIGBREAK"}

\* The timeouts the signal handler passes to the two services.
SignalStopArgs == [wallet |-> SignalTimeoutSeconds, node |-> SignalTimeoutSeconds]

\* The future of a Service.stop(t) call made by the signal handler.
SignalStopCall(st, s, t) ==
  IF st.status[s] = Stopped THEN NoSignalStop ELSE {t}

\* Mutant: the handler stops the wallet service only.
SignalHandlerWalletOnly(st) ==
  LET a == ServiceStop(st, wallet, SignalStopArgs[wallet])
  IN [a EXCEPT !.sig[wallet] = SignalStopCall(a, wallet, SignalStopArgs[wallet])]

\* The handler: walletService.stop(0) and nodeService.stop(0), each with its
\* own future and its own catch.
SignalHandler(st) ==
  LET a == ServiceStop(st, wallet, SignalStopArgs[wallet])
      b == ServiceStop(a, node, SignalStopArgs[node])
  IN [b EXCEPT !.sig = [s \in Services |-> SignalStopCall(b, s, SignalStopArgs[s])]]

\* A termination signal arrives while the handlers are installed; the handler
\* is the same for every signal.
Signal(sig) ==
  /\ sigInstalled
  /\ Commit(SignalHandler(Cur))
  /\ UNCHANGED <<cmd, svcStart, apiPort, exited, sigInstalled,
                 cleanupSignalHandlers, pollers, userStops, exitCount,
                 readyCount>>

\* .catch(passthroughErrorLogger): the error is logged, the handler returns
\* nothing and the rejection goes no further.
passthroughErrorLogger(call) == NoSignalStop

\* A stop future the signal handler holds rejects; its catch handler runs.
SignalStopRejected(s) ==
  /\ sigStop[s] # NoSignalStop
  /\ sigStop' = [sigStop EXCEPT ![s] = passthroughErrorLogger(@)]
  /\ UNCHANGED <<cmd, status, exitStatus, svcStart, apiPort, exited,
                 sigInstalled, cleanupSignalHandlers, starts, pollers, stops,
                 userStops, exitCount, readyCount>>

\* ------------------------------------------------------- the managed service
\* The service launches its process once its start command is known.
Launch(s) ==
  /\ status[s] = Starting
  /\ cmd[s] = "fulfilled"
  /\ Commit(SetStatus(Cur, s, Started, "none"))
  /\ svcStart' = [svcStart EXCEPT ![s] = "resolved"]
  /\ UNCHANGED <<cmd, apiPort, exited, sigInstalled, cleanupSignalHandlers,
                 pollers, userStops, exitCount, readyCount>>

\* The start command was rejected: start() rejects, the status stays Starting.
StartFail(s) ==
  /\ status[s] = Starting
  /\ cmd[s] = "rejected"
  /\ svcStart[s] = "pending"
  /\ svcStart' = [svcStart EXCEPT ![s] = "rejected"]
  /\ UNCHANGED <<cmd, status, exitStatus, apiPort, exited, sigInstalled,
                 cleanupSignalHandlers, starts, pollers, stops, userStops,
                 exitCount, readyCount, sigStop>>

\* The process of a started service ends by itself.
SelfExit(s, es) ==
  /\ status[s] = Started
  /\ Commit(SetStatus(Cur, s, Stopped, es))
  /\ UNCHANGED <<cmd, svcStart, apiPort, exited, sigInstalled,
                 cleanupSignalHandlers, pollers, userStops, exitCount,
                 readyCount>>

\* The process of a stopping service ends (by itself or killed at the timeout).
StopExit(s, es) ==
  /\ status[s] = Stopping
  /\ Commit(SetStatus(Cur, s, Stopped, es))
  /\ UNCHANGED <<cmd, svcStart, apiPort, exited, sigInstalled,
                 cleanupSignalHandlers, pollers, userStops, exitCount,
                 readyCount>>

\* The most stop() calls there can be: the user's, and one by each service's
\* observer when that service reports Stopped.
MaxStopCalls == MaxStops + Cardinality(Services)

\* ------------------------------------------------------------ specification
Next ==
  \/ NodeCmdFulfil
  \/ NodeCmdReject
  \/ WalletCmdFulfil
  \/ WalletCmdReject
  \/ Start
  \/ \E k \in 1..MaxStartCalls : Tick(k)
  \/ \E k \in 1..MaxStartCalls : ConnectAccepted(k)
  \/ \E k \in 1..MaxStartCalls : ConnectError(k)
  \/ \E k \in 1..MaxStartCalls : ConnectCallback(k)
  \/ \E t \in StopTimeouts : Stop(t)
  \/ \E i \in DOMAIN stops : StopDone(i)
  \/ \E sig \in Signals : Signal(sig)
  \/ \E s \in Services : SignalStopRejected(s)
  \/ \E s \in Services : Launch(s)
  \/ \E s \in Services : StartFail(s)
  \/ \E s \in Services, es \in ProcessExits : SelfExit(s, es)
  \/ \E s \in Services, es \in ProcessExits : StopExit(s, es)

Spec == Init /\ [][Next]_vars

\* The same program when the user may call start() again.
NextRestart == Next \/ StartAgain

RestartSpec == Init /\ [][NextRestart]_vars

\* What the runtime and the collaborators guarantee to happen: promise
\* continuations and timers run, a command promise settles, a service acts on
\* its command, a stopping process ends (it is killed at the timeout), and a
\* callback that is due is delivered.  Calls by the user, signals, a process
\* ending by itself and the wallet accepting a probe are not guaranteed.
Fairness ==
  /\ WF_vars(NodeCmdFulfil \/ NodeCmdReject)
  /\ WF_vars(WalletCmdFulfil \/ WalletCmdReject)
  /\ \A s \in Services : WF_vars(Launch(s))
  /\ \A s \in Services : WF_vars(StartFail(s))
  /\ \A s \in Services : WF_vars(\E es \in ProcessExits : StopExit(s, es))
  /\ \A i \in 1..MaxStopCalls : WF_vars(StopDone(i))
  /\ \A k \in 1..MaxStarts : WF_vars(Tick(k))
  /\ \A k \in 1..MaxStarts : WF_vars(ConnectCallback(k))

FairSpec == Spec /\ Fairness

\* ------------------------------------------------------------------ helpers
\* The service's process was launched at some point.
Ran(s) == status[s] \in {Started, Stopping} \/ exitStatus[s] \in ProcessExits

TypeOK ==
  /\ cmd \in [Services -> {"pending", "fulfilled", "rejected"}]
  /\ status \in [Services -> NotStarted..Stopped]
  /\ svcStart \in [Services -> {"none", "pending", "resolved", "rejected"}]
  /\ apiPort \in {NoPort, WalletPort}
  /\ Len(starts) <= MaxStartCalls /\ Len(pollers) = Len(starts)
  /\ Len(stops) <= MaxStopCalls
  /\ sigStop \in [Services -> SUBSET {SignalTimeoutSeconds}]

\* ------------------------------------------------------------------- claims

\* C1: 'exit' is emitted at most once whatever triggers race (self-exit of
\* either service, explicit stop() calls, signals), and the exited flag never
\* goes back from true to false.
C1_ExitAtMostOnce ==
  /\ [](exitCount <= 1 /\ (exited <=> exitCount = 1))
  /\ [][exited => exited']_vars

\* C1 witness: several stop() continuations have run, triggered by the user
\* and by both services' exits, and 'exit' was emitted once.
C1_Witness ==
  /\ exitCount = 1
  /\ userStops >= 1
  /\ \A s \in Services : exitStatus[s] \in ProcessExits
  /\ Cardinality({i \in DOMAIN stops : stops[i].done}) >= 3

\* C2 as stated: walletService.start() is never invoked while the node's
\* start operation is still pending.
C2_WalletStartAfterNodeStart ==
  \A k \in DOMAIN starts : starts[k].nodeAtWalletStart \in {"resolved", "rejected"}

\* C2 amended: the start commands are what is chained.  The wallet's start
\* command settles only after the node's has, is fulfilled only if the
\* node's was, and the wallet process is launched only after that.
C2_CommandOrder ==
  /\ cmd[wallet] # "pending" => cmd[node] # "pending"
  /\ cmd[wallet] = "fulfilled" => cmd[node] = "fulfilled"
  /\ cmd[node] = "rejected" => cmd[wallet] = "rejected"
  /\ Ran(wallet) => cmd[node] = "fulfilled"
  /\ apiPort # NoPort => cmd[node] = "fulfilled"

\* C2 witness: the wallet was launched after both commands were fulfilled.
C2_Witness ==
  /\ status[wallet] = Started
  /\ cmd[node] = "fulfilled" /\ cmd[wallet] = "fulfilled"
  /\ Len(starts) >= 1

\* C3: start() resolves, and 'ready' is emitted, only after a probe of the
\* port the wallet reported was accepted.
C3_ReadyAfterProbe ==
  /\ readyCount > 0 =>
       \E j \in DOMAIN pollers : pollers[j].accepted /\ pollers[j].addr = WalletPort
  /\ \A k \in DOMAIN starts : starts[k].fut = "resolved" =>
       /\ readyCount > 0
       /\ \E j \in DOMAIN pollers : pollers[j].accepted /\ pollers[j].addr = WalletPort

\* C3 witness: a start() future resolved by its own poller's accepted probe.
C3_Witness ==
  /\ Len(starts) >= 1 /\ starts[1].fut = "resolved"
  /\ pollers[1].sock = "connected"
  /\ status[wallet] = Started /\ status[node] = Started

\* C4: N concurrent stop() calls all resolve with the same combined
\* {wallet, node} status, whether or not the call fired 'exit', and 'exit' is
\* emitted exactly once.  No call is left hanging: once both services' stop
\* futures have resolved, a call has returned or its continuation is due.
C4_ConcurrentStops ==
  \A i \in DOMAIN stops :
    /\ stops[i].done =>
         /\ stops[i].res = <<exitStatus[wallet], exitStatus[node]>>
         /\ \A s \in Services : exitStatus[s] # "none"
         /\ exitCount = 1
         /\ \A j \in DOMAIN stops : stops[j].done => stops[j].res = stops[i].res
    /\ (stops[i].wf # "pending") <=> (status[wallet] = Stopped)
    /\ (stops[i].nf # "pending") <=> (status[node] = Stopped)
    /\ (~stops[i].done /\ \A s \in Services : status[s] = Stopped)
         => ENABLED StopDone(i)

\* C4 witness: stop() calls by the user and by both services' observers were
\* pending together, all have returned, and only one of them fired 'exit'.
C4_Witness ==
  /\ userStops >= 1
  /\ \A i \in DOMAIN stops : stops[i].done
  /\ Cardinality({i \in DOMAIN stops : stops[i].fired}) = 1
  /\ Cardinality({i \in DOMAIN stops : ~stops[i].fired}) >= 2
  /\ \A s \in Services : exitStatus[s] \in ProcessExits

\* C5 as stated: if the stop-predicate becomes true before any probe has
\* succeeded, 'ready' is never emitted.  Equivalently: whenever 'ready' has
\* been emitted, some probe was accepted while the stop-predicate was false.
C5_NoReadyAfterStopPredicate ==
  readyCount > 0 => \E k \in DOMAIN pollers : pollers[k].beforeStop

\* C6 as stated: when the node's start future rejects, every start() future
\* is eventually rejected, and the wallet is never launched.
C6_NodeStartFailureRejects ==
  /\ [](svcStart[node] = "rejected" => ~Ran(wallet))
  /\ [](svcStart[node] = "rejected" =>
         <>(\A k \in DOMAIN starts : starts[k].fut = "rejected"))

\* C7 as stated (safety part): when a service reports Stopped, stop has been
\* invoked on both services, 'exit' is emitted at most once, and a start()
\* future that was pending at that moment never resolves (it is rejected).
C7_StoppedRejectsStart ==
  /\ (\E s \in Services : status[s] = Stopped) =>
       /\ Len(stops) >= 1
       /\ \A s \in Services : status[s] >= Stopping
  /\ exitCount <= 1
  /\ \A k \in DOMAIN starts : starts[k].atStop => starts[k].fut # "resolved"

C9_SubscribedBeforeStarting ==
  \A k \in DOMAIN starts :
    starts[k].before \cap {"nodeStart", "walletStart", "waitForApi"} = {}

\* C9 amended: the subscriptions are registered after the start operations
\* and the poller are invoked, in the same synchronous job, so every start()
\* call holds both subscriptions before any emission can happen and misses
\* no 'ready' or 'exit' emitted after it.
C9_NoMissedEmission ==
  \A k \in DOMAIN starts :
    /\ starts[k].subs = {"onReady", "onExit"}
    /\ starts[k].before = {"nodeStart", "walletStart", "waitForApi"}
    /\ ~starts[k].missed
    /\ (exitCount > 0 /\ starts[k].err # <<"none", "none">>) => starts[k].fut = "rejected"

\* C9 witness: a start() future was resolved by a 'ready' emitted after the
\* call, and the later 'exit' found its listener too.
C9_Witness ==
  /\ Len(starts) >= 1
  /\ starts[1].fut = "resolved" /\ ~starts[1].missed
  /\ readyCount = 1 /\ exitCount = 1

\* C10: stop(t) passes t to both services, and returns and emits 'exit' only
\* when both services' stop futures have resolved, never earlier.
C10_StopWaitsForBoth ==
  /\ \A i \in DOMAIN stops :
       /\ stops[i].wt = stops[i].t /\ stops[i].nt = stops[i].t
       /\ stops[i].done =>
            /\ stops[i].wf # "pending" /\ stops[i].nf # "pending"
            /\ \A s \in Services : status[s] = Stopped
  /\ exitCount > 0 => \A s \in Services : status[s] = Stopped

\* C10 witness: stop(5) on two running services has returned their statuses.
C10_Witness ==
  \E i \in DOMAIN stops :
    /\ stops[i].t = 5 /\ stops[i].done /\ stops[i].fired
    /\ stops[i].res \in ProcessExits \X ProcessExits

\* C11: while the handlers are installed, each of SIGINT, SIGTERM, SIGHUP and
\* SIGBREAK makes the handler call stop(0) on the wallet service and on the
\* node service, and a rejection of either stop future is absorbed: it
\* changes nothing and reaches nobody.
C11_SignalStopsBoth ==
  /\ [](\A s \in Services :
          /\ sigStop[s] \subseteq {0}
          /\ sigStop[s] # {} => \A r \in Services : status[r] \in {Stopping, Stopped})
  /\ [][\A sig \in Signals :
          (sigInstalled /\ Signal(sig)) =>
             \A s \in Services :
               /\ status'[s] \in {Stopping, Stopped}
               /\ status'[s] = Stopping => sigStop'[s] = {0}]_vars
  /\ [][\A s \in Services :
          SignalStopRejected(s) =>
             /\ sigStop'[s] = {}
             /\ UNCHANGED <<status, exitStatus, exited, sigInstalled,
                            cleanupSignalHandlers, starts, stops, exitCount,
                            readyCount>>]_vars

\* C11 witness: a signal arrived while both services ran, both are stopping,
\* the wallet's stop future was rejected and absorbed, the node's is pending.
C11_Witness ==
  /\ status[wallet] = Stopping /\ status[node] = Stopping
  /\ sigStop[wallet] = {}
  /\ sigStop[node] = {0}
  /\ sigInstalled

\* C12: the teardown of the signal handlers is idempotent: over any sequence
\* of stop() completions the installed handlers are deregistered exactly once
\* (by the first completion), every later cleanup call is noop and changes
\* nothing, and handlers are never installed again.
C12_CleanupOnce ==
  /\ [](/\ Cardinality({i \in DOMAIN stops : stops[i].removed}) <= 1
        /\ (cleanupSignalHandlers = "remove") <=> sigInstalled
        /\ (\E i \in DOMAIN stops : stops[i].done) =>
             ~sigInstalled /\ cleanupSignalHandlers = "noop")
  /\ [][sigInstalled' => sigInstalled]_vars
  /\ [][cleanupSignalHandlers = "noop" =>
          UNCHANGED <<sigInstalled, cleanupSignalHandlers>>]_vars
  /\ [][\A i \in DOMAIN stops :
          (sigInstalled /\ StopDone(i)) =>
             /\ ~sigInstalled'
             /\ {j \in DOMAIN stops' : stops'[j].removed} = {i}]_vars

\* C12 witness: two stop() calls have completed; the first to complete
\* removed the handlers, the other one found noop.
C12_Witness ==
  \E i, j \in DOMAIN stops :
    /\ stops[i].done /\ stops[i].removed
    /\ stops[j].done /\ ~stops[j].removed
    /\ ~sigInstalled

\* C13: on its first successful connection a poller halts (its timer is
\* cancelled and it makes no further attempt) and its ready callback runs
\* exactly once, so one start() call causes exactly one 'ready'.
C13_HaltOnSuccess ==
  /\ [](\A k \in DOMAIN pollers :
          /\ pollers[k].readies <= 1
          /\ pollers[k].readies = 1 <=> pollers[k].sock = "connected"
          /\ pollers[k].sock = "connected" => ~pollers[k].timer)
  /\ [](readyCount = Cardinality({k \in DOMAIN pollers : pollers[k].readies > 0}))
  /\ [][\A k \in DOMAIN pollers :
          pollers[k].sock = "connected" => pollers'[k] = pollers[k]]_vars

\* C13 witness: a poller connected, ran its ready callback once and halted
\* with its last socket open, while both services keep running.
C13_Witness ==
  /\ Len(pollers) >= 1
  /\ pollers[1].sock = "connected" /\ pollers[1].readies = 1
  /\ ~pollers[1].timer /\ pollers[1].open = 1
  /\ readyCount = 1 /\ exitCount = 0
  /\ \A s \in Services : status[s] = Started

\* C14 as stated: a tick that finds the stop-predicate true cancels the timer
\* and makes no attempt, and whenever a service's start has failed the timer
\* of every poller is eventually cancelled.
C14_PollerHalts ==
  /\ [][\A k \in DOMAIN pollers :
          (stopWaiting /\ Tick(k)) =>
             ~pollers'[k].timer /\ pollers'[k].sock = pollers[k].sock]_vars
  /\ \A k \in 1..MaxStarts :
       []((k \in DOMAIN pollers /\ \E s \in Services : svcStart[s] = "rejected")
            => <>(k \in DOMAIN pollers /\ ~pollers[k].timer))

\* C15: a poller has at most one probe socket open at any time: a tick that
\* starts a new attempt destroys the previous attempt's socket first.
C15_OneLiveSocket ==
  \A k \in DOMAIN pollers :
    /\ pollers[k].open \in {0, 1}
    /\ pollers[k].open = 1 <=> pollers[k].sock \in {"pending", "accepted", "connected"}

\* C15 witness: a tick replaced a socket whose connection had been accepted
\* (and whose callback had not run yet) by a new one, the only one open.
C15_Witness ==
  \E k \in DOMAIN pollers :
    /\ pollers[k].accepted /\ pollers[k].sock = "pending"
    /\ pollers[k].open = 1 /\ pollers[k].readies = 0

\* C16: a failed connection attempt does not end the polling and reaches
\* nobody: it leaves the timer running and causes no 'exit', no 'ready' and
\* no settling of a start() future, and while the stop-predicate is false
\* the next tick makes another attempt.
C16_FailureIsRetried ==
  /\ [](\A k \in DOMAIN pollers :
          pollers[k].sock = "failed" => pollers[k].timer \/ stopWaiting)
  /\ [][\A k \in DOMAIN pollers :
          ConnectError(k) =>
             /\ pollers'[k].timer = pollers[k].timer
             /\ UNCHANGED <<starts, stops, status, exited, exitCount,
                            readyCount>>]_vars
  /\ [][\A k \in DOMAIN pollers :
          (pollers[k].sock = "failed" /\ ~stopWaiting /\ Tick(k)) =>
             pollers'[k].sock = "pending" /\ pollers'[k].timer]_vars

\* C16 witness: an attempt has failed while both services run; the start()
\* future is still pending, nothing was emitted and the next tick is due.
C16_Witness ==
  \E k \in DOMAIN pollers :
    /\ pollers[k].sock = "failed" /\ pollers[k].timer
    /\ ~stopWaiting /\ ENABLED Tick(k)
    /\ starts[k].fut = "pending"
    /\ exitCount = 0 /\ readyCount = 0

\* C17 as stated: every tick while apiPort is 0 makes no connection attempt
\* and leaves the poller running, and every attempt targets the port the
\* wallet reported.
C17_PortUnknownTickIsNoop ==
  /\ [][\A k \in DOMAIN pollers :
          (apiPort = NoPort /\ Tick(k)) => pollers'[k] = pollers[k]]_vars
  /\ [](\A k \in DOMAIN pollers :
          pollers[k].sock # "none" =>
             pollers[k].addr = WalletPort /\ apiPort = WalletPort)

\* C17: a tick while apiPort is 0 never makes a connection attempt; it
\* leaves the poller running when the stop-predicate is false (when it is
\* true the tick cancels the timer, port or no port).  Every attempt targets
\* the port the wallet reported.
C17_NoAttemptBeforePort ==
  /\ [][\A k \in DOMAIN pollers :
          (apiPort = NoPort /\ Tick(k)) =>
             /\ pollers'[k].sock = "none" /\ pollers'[k].open = 0
             /\ pollers'[k].addr = NoPort
             /\ pollers'[k].timer = ~stopWaiting]_vars
  /\ [](\A k \in DOMAIN pollers :
          /\ pollers[k].addr \in {NoPort, WalletPort}
          /\ pollers[k].sock # "none" =>
               pollers[k].addr = WalletPort /\ apiPort = WalletPort)

\* C17 witness: the node runs, the wallet's start command has not produced
\* the port yet, and the poller's timer is ticking without any socket.
C17_Witness ==
  /\ Len(pollers) >= 1
  /\ apiPort = NoPort /\ cmd[wallet] = "pending"
  /\ status[node] = Started /\ status[wallet] = Starting
  /\ pollers[1].timer /\ ENABLED Tick(1)
  /\ pollers[1].sock = "none" /\ pollers[1].addr = NoPort

\* C18 as stated: once 'exit' has been emitted, 'ready' is never emitted
\* afterwards.
C18_NoReadyAfterExit ==
  [][exitCount > 0 => readyCount' = readyCount]_vars

\* C19 as stated: no start() future stays pending once the Launcher has
\* exited: in every state where 'exit' has been emitted, whether after the
\* call or before it, the call's future is settled or eventually settles.
C19_StartSettlesAfterExit ==
  \A k \in 1..MaxStarts :
    []((exitCount > 0 /\ k \in DOMAIN starts)
         => <>(k \in DOMAIN starts /\ starts[k].fut # "pending"))

\* C20 as stated: 'ready' is emitted at most once over the whole lifetime of
\* a Launcher, also when start() is called more than once.
C20_ReadyAtMostOnce == readyCount <= 1

====
